---------------------------- MODULE Spec2Model ----------------------------
(***************************************************************************)
(* A model of the rdna package (python/__init__.py): the import-time        *)
(* availability probe, the module-level device functions, the two device   *)
(* context managers and the memory stubs, over the native extension        *)
(* rdna_py.  The native extension is not part of the Python sources; the   *)
(* operators and actions whose names start with Native model it from the   *)
(* written specification.                                                  *)
(***************************************************************************)
EXTENDS Integers, Sequences, FiniteSets

VARIABLES
    nDevices,    \* accelerators the native layer discovered (native state)
    loaded,      \* the package has been imported
    _available,  \* module global _available (line 29)
    probe,       \* outcome of the import-time native is_available() call
    initCalls,   \* number of native initialize() calls made so far
    objs,        \* the context objects constructed so far, fields of each
    stack,       \* per thread: the with-statements it is inside of
    exc,         \* per thread: the exception propagating in it
    inUse,       \* native allocator: per device, sizes of the blocks in use
    cache,       \* native allocator: per device, sizes of the free blocks
    peak,        \* native allocator: per device, high-water mark
    last         \* the last call made and what the caller observed

vars == <<nDevices, loaded, _available, probe, initCalls, objs, stack, exc,
          inUse, cache, peak, last>>

---------------------------------------------------------------------------
(* Bounds of the model. *)

MaxDevices == 2     \* the host holds 0..MaxDevices accelerators
MaxObjs == 2        \* context objects constructed in one run
MaxDepth == 2       \* nesting depth of with-statements per thread
MaxTail == 3        \* characters following the head of an identifier
MaxBlocks == 2      \* blocks the native allocator holds per device
MaxSize == 2        \* largest allocation request, in bytes

Threads == {1, 2}
MainThread == 1

---------------------------------------------------------------------------
(* Python values. *)

PyNone == [tag |-> "None"]
PyInt(i) == [tag |-> "int", val |-> i]
PyBool(b) == [tag |-> "bool", val |-> b]
\* A dict, by its items: a function from keys to values.
PyDict(items) == [tag |-> "dict", keys |-> DOMAIN items, items |-> items]

\* bool(v) as Python's truth test takes it.
Truthy(v) ==
    CASE v.tag = "None" -> FALSE
      [] v.tag = "int" -> v.val # 0
      [] v.tag = "bool" -> v.val
      [] v.tag = "dict" -> v.keys # {}

\* What a call gives its caller: a value, or an exception.
Returns(v) == [raised |-> "none", ret |-> v]
Raises(e) == [raised |-> e, ret |-> PyNone]

---------------------------------------------------------------------------
(* Strings are sequences of one-character strings. *)

Digits == {"0", "1", "2", "3", "4", "5", "6", "7", "8", "9"}

DigitVal(c) ==
    CASE c = "0" -> 0 [] c = "1" -> 1 [] c = "2" -> 2 [] c = "3" -> 3
      [] c = "4" -> 4 [] c = "5" -> 5 [] c = "6" -> 6 [] c = "7" -> 7
      [] c = "8" -> 8 [] c = "9" -> 9

\* str.startswith(prefix)
startswith(s, prefix) ==
    /\ Len(s) >= Len(prefix)
    /\ SubSeq(s, 1, Len(prefix)) = prefix

\* c in s, for a single character c
contains(s, c) == \E i \in 1..Len(s) : s[i] = c

\* Index of the first occurrence of c in s, 0 when there is none.
find(s, c) ==
    IF contains(s, c)
    THEN CHOOSE i \in 1..Len(s) : s[i] = c /\ \A j \in 1..(i - 1) : s[j] # c
    ELSE 0

\* str.split(sep) for a one-character separator: the fields between the
\* separators, empty fields kept.
RECURSIVE split(_, _)
split(s, sep) ==
    LET i == find(s, sep)
    IN  IF i = 0
        THEN <<s>>
        ELSE <<SubSeq(s, 1, i - 1)>> \o split(SubSeq(s, i + 1, Len(s)), sep)

\* str.strip() of blanks
RECURSIVE lstrip(_)
lstrip(s) == IF s # <<>> /\ Head(s) = " " THEN lstrip(Tail(s)) ELSE s

RECURSIVE rstrip(_)
rstrip(s) ==
    IF s # <<>> /\ s[Len(s)] = " " THEN rstrip(SubSeq(s, 1, Len(s) - 1)) ELSE s

strip(s) == lstrip(rstrip(s))

\* The value of a run of decimal digits.
RECURSIVE DecimalValue(_)
DecimalValue(ds) ==
    IF ds = <<>>
    THEN 0
    ELSE 10 * DecimalValue(SubSeq(ds, 1, Len(ds) - 1)) + DigitVal(ds[Len(ds)])

\* int(s) for a str s: blanks around the literal are dropped, one sign is
\* allowed, then at least one decimal digit and nothing else; anything else
\* raises ValueError.
int(s) ==
    LET t == strip(s)
        signed == t # <<>> /\ Head(t) \in {"+", "-"}
        ds == IF signed THEN Tail(t) ELSE t
        ok == ds # <<>> /\ \A i \in 1..Len(ds) : ds[i] \in Digits
        mag == DecimalValue(ds)
    IN  IF ok
        THEN Returns(PyInt(IF signed /\ Head(t) = "-" THEN 0 - mag ELSE mag))
        ELSE Raises("ValueError")


\* "rdna" and "/device:RDNA", the prefixes the constructors test for.
rdna_prefix == <<"r", "d", "n", "a">>
tf_prefix == <<"/", "d", "e", "v", "i", "c", "e", ":", "R", "D", "N", "A">>

---------------------------------------------------------------------------
(* The native extension rdna_py, from the written specification: the      *)
(* registry answers from the devices it discovered.                       *)

Native_is_available(n) == n >= 1

Native_device_count(n) == n

\* What the import-time calls into the native layer can give: the probe
\* answers from the registry or fails, initialize() returns or fails.
NativeProbeOutcomes(n) ==
    {Returns(PyBool(Native_is_available(n))), Raises("RuntimeError")}

NativeInitOutcomes == {Returns(PyNone), Raises("RuntimeError")}

NotCalled == [raised |-> "not called", ret |-> PyNone]

\* Bytes held by a collection of blocks: blocks[s] blocks of each size s.
RECURSIVE BytesUpTo(_, _)
BytesUpTo(blocks, s) ==
    IF s = 0 THEN 0 ELSE s * blocks[s] + BytesUpTo(blocks, s - 1)

Bytes(blocks) == BytesUpTo(blocks, MaxSize)

RECURSIVE CountUpTo(_, _)
CountUpTo(blocks, s) ==
    IF s = 0 THEN 0 ELSE blocks[s] + CountUpTo(blocks, s - 1)

Count(blocks) == CountUpTo(blocks, MaxSize)

NoBlocks == [s \in 1..MaxSize |-> 0]

\* allocatedBytes(d), cachedBytes(d), peakAllocatedBytes(d)
Native_allocated(d) == Bytes(inUse[d])
Native_memory_cached(d) == Bytes(cache[d])
Native_peak(d) == peak[d]

---------------------------------------------------------------------------
(* Module-level functions of the package. *)

\* _check_availability() with initialize() called whatever the probe said.
_check_availability_AlwaysInitializes(p, i) ==
    IF p.raised # "none"
    THEN [ret |-> FALSE, calls |-> <<"is_available">>]
    ELSE IF i.raised # "none"
         THEN [ret |-> FALSE, calls |-> <<"is_available", "initialize">>]
         ELSE [ret |-> Truthy(p.ret),
               calls |-> <<"is_available", "initialize">>]

\* _check_availability() with a failure of initialize() ignored.
_check_availability_IgnoresInitFailure(p, i) ==
    IF p.raised # "none"
    THEN [ret |-> FALSE, calls |-> <<"is_available">>]
    ELSE IF Truthy(p.ret)
         THEN [ret |-> TRUE, calls |-> <<"is_available", "initialize">>]
         ELSE [ret |-> FALSE, calls |-> <<"is_available">>]

\* _check_availability(), given what the two native calls would give.
\* ret is the value bound to _available, calls the native calls made.
_check_availability(p, i) ==
    IF p.raised # "none"
    THEN [ret |-> FALSE, calls |-> <<"is_available">>]
    ELSE IF Truthy(p.ret)
         THEN IF i.raised # "none"
              THEN [ret |-> FALSE, calls |-> <<"is_available", "initialize">>]
              ELSE [ret |-> TRUE, calls |-> <<"is_available", "initialize">>]
         ELSE [ret |-> FALSE, calls |-> <<"is_available">>]

is_available == Returns(PyBool(_available))

device_count == Returns(PyInt(Native_device_count(nDevices)))

current_device == Returns(PyInt(0))

set_device(device_id) == Returns(PyNone)

empty_cache == Returns(PyNone)

memory_allocated(device_id) == Returns(PyInt(0))

max_memory_allocated(device_id) == Returns(PyInt(0))

EmptyItems == [k \in {} |-> PyNone]

get_device_properties(device_id) == Returns(PyDict(EmptyItems))

---------------------------------------------------------------------------
(* The context manager classes.  An object is the record of its fields;   *)
(* prev_device is PyNone until __enter__ assigns it.                       *)

Object(cls, id) == [cls |-> cls, device_id |-> id, prev_device |-> PyNone]

device__init__(device_str) ==
    IF startswith(device_str, rdna_prefix)
    THEN IF contains(device_str, ":")
         THEN LET r == int(split(device_str, ":")[2])
              IN  IF r.raised # "none" THEN r
                  ELSE Returns(Object("device", r.ret))
         ELSE Returns(Object("device", PyInt(0)))
    ELSE Raises("ValueError")

tf_device__init__(device_str) ==
    IF startswith(device_str, tf_prefix)
    THEN LET parts == split(device_str, ":")
         IN  IF Len(parts) > 2
             THEN LET r == int(parts[3])
                  IN  IF r.raised # "none" THEN r
                      ELSE Returns(Object("tf_device", r.ret))
             ELSE Returns(Object("tf_device", PyInt(0)))
    ELSE Raises("ValueError")

\* __enter__, first statement: self.prev_device = current_device()
device__enter__save(self) == [self EXCEPT !.prev_device = current_device.ret]
tf_device__enter__save(self) == [self EXCEPT !.prev_device = current_device.ret]

\* __enter__, second statement: set_device(self.device_id)
device__enter__set(self) == set_device(self.device_id)
tf_device__enter__set(self) == set_device(self.device_id)

\* __exit__ ending in "return True".
device__exit__ReturnsTrue(self) ==
    LET r == set_device(self.prev_device)
    IN  IF r.raised # "none" THEN r ELSE Returns(PyBool(TRUE))

\* __exit__: set_device(self.prev_device), and no return statement.
device__exit__(self) ==
    LET r == set_device(self.prev_device)
    IN  IF r.raised # "none" THEN r ELSE Returns(PyNone)

tf_device__exit__(self) ==
    LET r == set_device(self.prev_device)
    IN  IF r.raised # "none" THEN r ELSE Returns(PyNone)

Construct__init__(cls, s) ==
    IF cls = "device" THEN device__init__(s) ELSE tf_device__init__(s)

EnterSave(self) ==
    IF self.cls = "device"
    THEN device__enter__save(self) ELSE tf_device__enter__save(self)

EnterSet(self) ==
    IF self.cls = "device"
    THEN device__enter__set(self) ELSE tf_device__enter__set(self)

ExitCall(self) ==
    IF self.cls = "device" THEN device__exit__(self) ELSE tf_device__exit__(self)

---------------------------------------------------------------------------
(* Inputs. *)

\* Identifiers the programs of Spec and SpecThreads construct contexts from:
\* "rdna:1", "/device:RDNA", "cuda:0".
CtxStrs ==
    {rdna_prefix \o <<":", "1">>,
     tf_prefix,
     <<"c", "u", "d", "a", ":", "0">>}

\* Identifiers SpecParse constructs from: a head followed by up to MaxTail
\* characters.
Heads ==
    {rdna_prefix, tf_prefix, <<"r", "d", "n">>, <<"c", "u", "d", "a">>,
     <<"/", "d", "e", "v", "i", "c", "e", ":", "G", "P", "U">>}

TailChars == {":", "0", "1", "x", "-", " "}

Tails == UNION {[1..n -> TailChars] : n \in 0..MaxTail}

Strings == {h \o t : h \in Heads, t \in Tails}

Classes == {"device", "tf_device"}

\* Indices handed to the functions that take one: every valid index and
\* the two past the end.
Indices == 0..(MaxDevices + 1)

Devices == 0..(MaxDevices - 1)

---------------------------------------------------------------------------
(* State. *)

Call(op, t, arg, out, p, pending) ==
    [op |-> op, t |-> t, arg |-> arg, out |-> out, p |-> p,
     pending |-> pending]

Init ==
    /\ nDevices \in 0..MaxDevices
    /\ loaded = FALSE
    /\ _available = FALSE
    /\ probe = [is_available |-> NotCalled, initialize |-> NotCalled]
    /\ initCalls = 0
    /\ objs = <<>>
    /\ stack = [t \in Threads |-> <<>>]
    /\ exc = [t \in Threads |-> "none"]
    /\ inUse = [d \in Devices |-> NoBlocks]
    /\ cache = [d \in Devices |-> NoBlocks]
    /\ peak = [d \in Devices |-> 0]
    /\ last = Call("none", MainThread, PyNone, NotCalled, PyNone, "none")

Top(t) == stack[t][Len(stack[t])]

Pop(t) == SubSeq(stack[t], 1, Len(stack[t]) - 1)

\* Thread t is between two statements of the calling program: the package
\* is imported, no exception is propagating, and t is not inside __enter__.
Ready(t) ==
    /\ loaded
    /\ exc[t] = "none"
    /\ IF stack[t] = <<>> THEN TRUE ELSE Top(t).pc = "body"

Count_initialize(calls) ==
    Cardinality({k \in 1..Len(calls) : calls[k] = "initialize"})

native == <<nDevices, inUse, cache, peak>>
boot == <<loaded, _available, probe, initCalls>>
ctx == <<objs, stack, exc>>

---------------------------------------------------------------------------
(* Import of the package: line 29 runs _check_availability() once. *)

Import(p, i) ==
    /\ ~loaded
    /\ LET r == _check_availability(p, i)
       IN  /\ _available' = r.ret
           /\ initCalls' = initCalls + Count_initialize(r.calls)
           /\ probe' = [is_available |-> p,
                        initialize |-> IF Count_initialize(r.calls) > 0
                                       THEN i ELSE NotCalled]
           /\ last' = Call("import", MainThread, PyNone,
                           Returns(PyBool(r.ret)), PyNone, "none")
    /\ loaded' = TRUE
    /\ UNCHANGED <<native, ctx>>

---------------------------------------------------------------------------
(* The context managers, as the with statement drives them. *)

\* device(s) or tf_device(s)
Construct(t, cls, s) ==
    /\ Ready(t)
    /\ LET r == Construct__init__(cls, s)
       IN  /\ IF r.raised = "none"
              THEN /\ Len(objs) < MaxObjs
                   /\ objs' = Append(objs, r.ret)
              ELSE objs' = objs
           /\ last' = Call(cls, t, s, r, current_device.ret, "none")
    /\ UNCHANGED <<native, boot, stack, exc>>

\* with objs[o]: __enter__ up to and including line 79 / 101
EnterSaveStep(t, o) ==
    /\ Ready(t)
    /\ o \in 1..Len(objs)
    /\ Len(stack[t]) < MaxDepth
    /\ objs' = [objs EXCEPT ![o] = EnterSave(@)]
    /\ stack' = [stack EXCEPT ![t] =
                    Append(@, [obj |-> o, pc |-> "enter",
                               p |-> current_device.ret])]
    /\ last' = Call("__enter__save", t, o, Returns(PyNone),
                    current_device.ret, "none")
    /\ UNCHANGED <<native, boot, exc>>

\* the rest of __enter__, lines 80-81 / 102-103; an exception leaves the
\* with statement without __exit__ being called
EnterSetStep(t) ==
    /\ loaded
    /\ stack[t] # <<>>
    /\ Top(t).pc = "enter"
    /\ LET r == EnterSet(objs[Top(t).obj])
       IN  /\ IF r.raised = "none"
              THEN /\ stack' = [stack EXCEPT ![t][Len(stack[t])].pc = "body"]
                   /\ exc' = exc
              ELSE /\ stack' = [stack EXCEPT ![t] = Pop(t)]
                   /\ exc' = [exc EXCEPT ![t] = r.raised]
           /\ last' = Call("__enter__", t, Top(t).obj, r, Top(t).p, "none")
    /\ UNCHANGED <<native, boot, objs>>

\* the body of the innermost with statement raises
BodyRaise(t) ==
    /\ Ready(t)
    /\ stack[t] # <<>>
    /\ exc' = [exc EXCEPT ![t] = "Error"]
    /\ last' = Call("raise", t, PyNone, Raises("Error"), current_device.ret,
                    "none")
    /\ UNCHANGED <<native, boot, objs, stack>>

\* the innermost with statement is left, the body done or an exception
\* propagating: __exit__ runs, a true result swallows the exception
Exit(t) ==
    /\ loaded
    /\ stack[t] # <<>>
    /\ Top(t).pc = "body"
    /\ LET r == ExitCall(objs[Top(t).obj])
       IN  /\ exc' = [exc EXCEPT ![t] =
                        IF r.raised # "none" THEN r.raised
                        ELSE IF Truthy(r.ret) THEN "none" ELSE @]
           /\ last' = Call("__exit__", t, Top(t).obj, r, Top(t).p, exc[t])
    /\ stack' = [stack EXCEPT ![t] = Pop(t)]
    /\ UNCHANGED <<native, boot, objs>>

\* the caller's except clause (basic_usage.py line 84)
Catch(t) ==
    /\ loaded
    /\ stack[t] = <<>>
    /\ exc[t] # "none"
    /\ exc' = [exc EXCEPT ![t] = "none"]
    /\ last' = Call("except", t, PyNone, Returns(PyNone), current_device.ret,
                    exc[t])
    /\ UNCHANGED <<native, boot, objs, stack>>

---------------------------------------------------------------------------
(* Calls of the module-level functions. *)

Observe(t, op, arg, out) ==
    /\ Ready(t)
    /\ last' = Call(op, t, arg, out, current_device.ret, "none")
    /\ UNCHANGED <<native, boot, ctx>>

SetDevice(t, i) == Observe(t, "set_device", i, set_device(PyInt(i)))

CurrentDevice(t) == Observe(t, "current_device", PyNone, current_device)

IsAvailable(t) == Observe(t, "is_available", PyNone, is_available)

DeviceCount(t) == Observe(t, "device_count", PyNone, device_count)

GetDeviceProperties(t, i) ==
    Observe(t, "get_device_properties", i, get_device_properties(PyInt(i)))

EmptyCache(t) == Observe(t, "empty_cache", PyNone, empty_cache)

MemoryAllocated(t, d) ==
    Observe(t, "memory_allocated", d, memory_allocated(PyInt(d)))

MaxMemoryAllocated(t, d) ==
    Observe(t, "max_memory_allocated", d, max_memory_allocated(PyInt(d)))

---------------------------------------------------------------------------
(* The native allocator, from the written specification (section 4.3),    *)
(* reached through the names the package re-exports from rdna_py.         *)

Max(a, b) == IF a >= b THEN a ELSE b

\* The best fit for n bytes among the free blocks of d: the smallest
\* cached size that holds n, 0 when none does.
BestFit(d, n) ==
    IF \E s \in n..MaxSize : cache[d][s] > 0
    THEN CHOOSE s \in n..MaxSize :
            /\ cache[d][s] > 0
            /\ \A u \in n..(s - 1) : cache[d][u] = 0
    ELSE 0

\* allocate(d, n): reuse the best-fitting free block, else take a new
\* block of n bytes from the driver.
NativeAllocate(t, d, n) ==
    /\ Ready(t)
    /\ d < nDevices
    /\ LET s == BestFit(d, n)
           b == IF s = 0 THEN n ELSE s
       IN  /\ s = 0 => Count(inUse[d]) + Count(cache[d]) < MaxBlocks
           /\ cache' = IF s = 0 THEN cache
                       ELSE [cache EXCEPT ![d][s] = @ - 1]
           /\ inUse' = [inUse EXCEPT ![d][b] = @ + 1]
           /\ peak' = [peak EXCEPT ![d] = Max(@, Bytes(inUse[d]) + b)]
    /\ last' = Call("allocate", t, d, Returns(PyInt(n)), current_device.ret,
                    "none")
    /\ UNCHANGED <<nDevices, boot, ctx>>

\* free(block) of a block of s bytes in use on d: the block is kept, free.
NativeFree(t, d, s) ==
    /\ Ready(t)
    /\ d < nDevices
    /\ inUse[d][s] > 0
    /\ inUse' = [inUse EXCEPT ![d][s] = @ - 1]
    /\ cache' = [cache EXCEPT ![d][s] = @ + 1]
    /\ last' = Call("free", t, d, Returns(PyNone), current_device.ret, "none")
    /\ UNCHANGED <<nDevices, peak, boot, ctx>>

\* memory_cached(d), which the package takes from rdna_py unchanged
MemoryCached(t, d) ==
    Observe(t, "memory_cached", d, Returns(PyInt(Native_memory_cached(d))))

---------------------------------------------------------------------------
(* Specifications. *)

ImportStep ==
    \E p \in NativeProbeOutcomes(nDevices), i \in NativeInitOutcomes :
        Import(p, i)

\* A single-threaded program using the package.
Next ==
    \/ ImportStep
    \/ \E cls \in Classes, s \in CtxStrs : Construct(MainThread, cls, s)
    \/ \E o \in 1..MaxObjs : EnterSaveStep(MainThread, o)
    \/ EnterSetStep(MainThread)
    \/ BodyRaise(MainThread)
    \/ Exit(MainThread)
    \/ Catch(MainThread)
    \/ \E i \in Indices : SetDevice(MainThread, i)
    \/ CurrentDevice(MainThread)
    \/ IsAvailable(MainThread)
    \/ DeviceCount(MainThread)
    \/ \E i \in Indices : GetDeviceProperties(MainThread, i)
    \/ EmptyCache(MainThread)

Spec == Init /\ [][Next]_vars

\* Threads each entering and leaving contexts on the shared module state.
NextThreads ==
    \/ ImportStep
    \/ \E t \in Threads, cls \in Classes, s \in CtxStrs : Construct(t, cls, s)
    \/ \E t \in Threads, o \in 1..MaxObjs : EnterSaveStep(t, o)
    \/ \E t \in Threads : EnterSetStep(t)
    \/ \E t \in Threads : Exit(t)

SpecThreads == Init /\ [][NextThreads]_vars

\* A program that imports the package and constructs one context, from an
\* identifier of any shape.
NextParse ==
    \/ ImportStep
    \/ \E cls \in Classes, s \in Strings :
          last.op = "import" /\ Construct(MainThread, cls, s)

SpecParse == Init /\ [][NextParse]_vars

\* The memory functions over the native allocator.
NextMem ==
    \/ ImportStep
    \/ \E d \in Devices, n \in 1..MaxSize : NativeAllocate(MainThread, d, n)
    \/ \E d \in Devices, s \in 1..MaxSize : NativeFree(MainThread, d, s)
    \/ EmptyCache(MainThread)
    \/ \E d \in Devices : MemoryCached(MainThread, d)
    \/ \E d \in Devices : MemoryAllocated(MainThread, d)
    \/ \E d \in Devices : MaxMemoryAllocated(MainThread, d)

SpecMem == Init /\ [][NextMem]_vars

---------------------------------------------------------------------------
(* Properties. *)

InRange(i) == 0 <= i /\ i < device_count.ret.val

InBody(t) == stack[t] # <<>> /\ Top(t).pc = "body"

\* C1: when a device context (device or tf_device) that was entered with
\* current device p is left, by its body completing or by an error raised
\* in its body, current_device() returns p again, and an error raised in
\* the body is still propagating after __exit__.
C1_ExitRestoresPrior ==
    last.op = "__exit__" =>
        /\ last.out.raised = "none"
        /\ current_device.ret = last.p
        /\ exc[last.t] = last.pending

\* A context for device 1 was left by an error raised in its body.
C1_Witness ==
    /\ last.op = "__exit__"
    /\ last.pending = "Error"
    /\ objs[last.arg].device_id = PyInt(1)
    /\ InRange(1)

\* C2: for every index i in [0, device_count()), set_device(i) returns the
\* previous current device and makes current_device() return i, and
\* current_device() in the body of a context for index i returns i.
C2_SetDeviceSetsCurrent ==
    /\ (last.op = "set_device" /\ InRange(last.arg)) =>
            /\ last.out = Returns(last.p)
            /\ current_device.ret = PyInt(last.arg)
    /\ (last.op = "__enter__" /\ InRange(objs[last.arg].device_id.val)) =>
            current_device.ret = objs[last.arg].device_id

\* C3: contexts nest as a stack: when the innermost context is left,
\* current_device() is the index of the enclosing context, and when the
\* outermost is left it is the value from before that context was entered.
C3_NestedRestoreIsLIFO ==
    last.op = "__exit__" =>
        IF stack[last.t] = <<>>
        THEN current_device.ret = last.p
        ELSE InRange(objs[Top(last.t).obj].device_id.val) =>
                current_device.ret = objs[Top(last.t).obj].device_id

\* The prefix each class requires of its identifier.
RequiredPrefix(cls) == IF cls = "device" THEN rdna_prefix ELSE tf_prefix

\* What follows the required prefix of identifier s.
AfterPrefix(cls, s) == SubSeq(s, Len(RequiredPrefix(cls)) + 1, Len(s))

\* The identifier carries an index: a colon follows its prefix.
HasIndex(cls, s) == contains(AfterPrefix(cls, s), ":")

\* The suffix after that colon.
IndexSuffix(cls, s) ==
    LET rest == AfterPrefix(cls, s)
    IN  SubSeq(rest, find(rest, ":") + 1, Len(rest))

Malformed(cls, s) ==
    \/ ~startswith(s, RequiredPrefix(cls))
    \/ HasIndex(cls, s) /\ int(IndexSuffix(cls, s)).raised # "none"

\* C4: device(s) and tf_device(s) raise ValueError for a malformed s (the
\* required prefix missing, or the suffix after the colon not an integer)
\* and construct nothing; for a well-formed s the object's device_id is
\* the integer after the colon, and 0 when s carries no index.
C4_MalformedIdentifierRejected ==
    last.op \in Classes =>
        IF Malformed(last.op, last.arg)
        THEN last.out.raised = "ValueError" /\ objs = <<>>
        ELSE /\ last.out.raised = "none"
             /\ last.out.ret.device_id =
                    IF HasIndex(last.op, last.arg)
                    THEN int(IndexSuffix(last.op, last.arg)).ret
                    ELSE PyInt(0)

\* C5: set_device(i) with i >= device_count() fails and leaves the current
\* device unchanged, and so does entering a context for such an index.
C5_SetDeviceOutOfRangeFails ==
    /\ (last.op = "set_device" /\ last.arg >= device_count.ret.val) =>
            /\ last.out.raised # "none"
            /\ current_device.ret = last.p
    /\ (last.op = "__enter__"
            /\ objs[last.arg].device_id.val >= device_count.ret.val) =>
            /\ last.out.raised # "none"
            /\ current_device.ret = last.p

\* C6, as claimed: once the package is imported is_available() returns,
\* without raising, whether device_count() >= 1.
C6_AvailableIffDeviceCounted ==
    loaded =>
        /\ is_available.raised = "none"
        /\ is_available.ret = PyBool(device_count.ret.val >= 1)

\* C6, amended: once the package is imported is_available() returns,
\* without raising, whether the native probe returned True and
\* initialize() then returned normally; it is True only if
\* device_count() >= 1, and with no device discovered it is False and
\* device_count() is 0.
C6_AvailableIffProbedAndInitialized ==
    loaded =>
        /\ is_available.raised = "none"
        /\ is_available.ret =
              PyBool(/\ probe.is_available = Returns(PyBool(TRUE))
                     /\ probe.initialize = Returns(PyNone))
        /\ Truthy(is_available.ret) => device_count.ret.val >= 1
        /\ nDevices = 0 =>
              /\ is_available.ret = PyBool(FALSE)
              /\ device_count.ret = PyInt(0)

\* Devices were discovered and initialize() raised: is_available() is
\* False although device_count() >= 1.
C6_Witness ==
    /\ loaded
    /\ probe.initialize = Raises("RuntimeError")
    /\ device_count.ret.val >= 1
    /\ is_available.ret = PyBool(FALSE)

\* C7: get_device_properties(i) returns a descriptor whose index is i for
\* every i in [0, device_count()), and fails for every other i.
C7_PropertiesByIndex ==
    last.op = "get_device_properties" =>
        IF InRange(last.arg)
        THEN /\ last.out.raised = "none"
             /\ last.out.ret.tag = "dict"
             /\ "index" \in last.out.ret.keys
             /\ last.out.ret.items["index"] = PyInt(last.arg)
        ELSE last.out.raised # "none"

\* C8: empty_cache() does not fail, leaves no cached byte on any device,
\* and leaves memory_allocated(d), max_memory_allocated(d) and the current
\* device as they were.
C8_EmptyCacheDropsCache ==
    [][last'.op = "empty_cache" =>
          /\ last'.out.raised = "none"
          /\ current_device' = current_device
          /\ \A d \in Devices :
                /\ Native_memory_cached(d)' = 0
                /\ memory_allocated(PyInt(d))' = memory_allocated(PyInt(d))
                /\ max_memory_allocated(PyInt(d))' =
                      max_memory_allocated(PyInt(d))]_vars

\* C9: with two threads each inside a context of its own, for different
\* devices, each thread reads its own context's index from
\* current_device(); once both have left, current_device() is what it was
\* before either entered.
C9_ThreadsSeeOwnDevice ==
    \A t, u \in Threads :
        /\ (/\ t # u
            /\ InBody(t) /\ InBody(u)
            /\ objs[Top(t).obj].device_id # objs[Top(u).obj].device_id
            /\ InRange(objs[Top(t).obj].device_id.val)
            /\ InRange(objs[Top(u).obj].device_id.val)) =>
                current_device.ret = objs[Top(t).obj].device_id
        /\ (last.op = "__exit__" /\ stack[t] = <<>> /\ stack[u] = <<>>) =>
                current_device.ret = last.p

\* C10: initialize() is called at most once, and only after the native
\* probe returned True; and once the package is imported no call changes
\* what is_available() returns.
C10_InitializedOnceAvailabilityFixed ==
    /\ [](/\ initCalls <= 1
          /\ initCalls = 1 => probe.is_available = Returns(PyBool(TRUE)))
    /\ [][loaded => is_available' = is_available]_vars

\* initialize() was called at import, and a context has since been entered
\* and left.
C10_Witness ==
    /\ loaded
    /\ initCalls = 1
    /\ last.op = "__exit__"

=============================================================================
